---- MODULE Spec2Model ----
(***************************************************************************)
(* A model of the kicad-sexp S-expression parser (src/kicad-sexp/src/lib.rs)*)
(* and of its example driver (src/kicad-sexp/examples/parse_file.rs).       *)
(*                                                                         *)
(* Text is a sequence of one-character strings.  A position p is the       *)
(* 1-based index of the next unread character; p = Len(s) + 1 is end of    *)
(* input.  Every parser is a pure operator from (text, position) to a      *)
(* result record, computed the way the combinator chain in the source      *)
(* computes it (ordered choice, rewind on failure, greedy repetition).     *)
(***************************************************************************)
EXTENDS Integers, Sequences, FiniteSets, TLC

VARIABLES src, pc, lit, node, tree, report

vars == <<src, pc, lit, node, tree, report>>

-----------------------------------------------------------------------------
(* Characters *)

Whitespace == {" ", "\n", "\t"}

Separators == {" ", "\n", "\t", ")"}

StringStop == {"\\", "\""}

EscapeCodes == {"\\", "\"", "n", "t"}

SymbolStop == {" ", "\"", "(", ")", "\n", "\t"}

Digits10 == {"0", "1", "2", "3", "4", "5", "6", "7", "8", "9"}

Digits16 == Digits10 \cup {"a", "b", "c", "d", "e", "f", "A", "B", "C", "D", "E", "F"}

HexWidth == 8

\* The character at position p, or "" at end of input.
At(s, p) == IF p >= 1 /\ p <= Len(s) THEN s[p] ELSE ""

-----------------------------------------------------------------------------
(* Combinator pieces shared by the five recognizers *)

RECURSIVE SkipWs(_, _)
\* .padded(): skip any run of whitespace.
SkipWs(s, p) == IF At(s, p) \in Whitespace THEN SkipWs(s, p + 1) ELSE p

RECURSIVE digits(_, _, _, _)
\* text::digits(radix) limited to at most `most` digits: the position after
\* the run of digits that starts at p.
digits(s, p, radix, most) ==
    IF most > 0 /\ At(s, p) \in radix THEN digits(s, p + 1, radix, most - 1) ELSE p

\* one_of(" \n\t)").repeated().at_least(1).rewind(): at least one separator
\* follows position e; nothing is consumed.
followed_by_separator(s, e) == At(s, e) \in Separators

NoMatch == [ok |-> FALSE, span |-> <<>>, pos |-> 0]

\* A tail that takes end of input for a separator too.
then_separator_or_end(s, from, to, e) ==
    IF e = 0 \/ ~(followed_by_separator(s, e) \/ At(s, e) = "")
    THEN NoMatch
    ELSE [ok |-> TRUE, span |-> SubSeq(s, from, to), pos |-> SkipWs(s, e)]

\* The common tail of every recognizer: the token ended right before e (e = 0:
\* the token did not match), its slice is s[from..to]; the lookahead must see
\* a separator, then trailing padding is skipped.
then_separator(s, from, to, e) ==
    IF e = 0 \/ ~followed_by_separator(s, e)
    THEN NoMatch
    ELSE [ok |-> TRUE, span |-> SubSeq(s, from, to), pos |-> SkipWs(s, e)]

\* just('-').or_not()
sign(s, p) == IF At(s, p) = "-" THEN p + 1 ELSE p

-----------------------------------------------------------------------------
(* The literal recognizers *)

\* An escape that takes any character after the backslash.
parse_escape_any(s, p) ==
    IF At(s, p) = "\\" /\ At(s, p + 1) # "" THEN p + 2 ELSE 0

\* parse_escape: the position after a backslash escape at p, or 0.
parse_escape(s, p) ==
    IF At(s, p) = "\\" /\ At(s, p + 1) \in EscapeCodes THEN p + 2 ELSE 0

RECURSIVE string_body(_, _)
\* none_of("\\\"").or(parse_escape()).repeated(): the position where the
\* repetition stops.
string_body(s, p) ==
    IF At(s, p) = "" THEN p
    ELSE IF At(s, p) \notin StringStop THEN string_body(s, p + 1)
    ELSE IF parse_escape(s, p) # 0 THEN string_body(s, parse_escape(s, p))
    ELSE p

parse_string(s, p) ==
    LET q == SkipWs(s, p)
        e == string_body(s, q + 1)
    IN  IF At(s, q) # "\"" \/ At(s, e) # "\"" THEN NoMatch
        ELSE then_separator(s, q + 1, e - 1, e + 1)

parse_int(s, p) ==
    LET q == SkipWs(s, p)
        d == sign(s, q)
        e == digits(s, d, Digits10, Len(s))
    IN  IF e = d THEN NoMatch ELSE then_separator(s, q, e - 1, e)

\* A group of at least, not exactly, HexWidth digits.
hex_group_at_least(s, p) ==
    IF p # 0 /\ digits(s, p, Digits16, Len(s)) >= p + HexWidth
    THEN digits(s, p, Digits16, Len(s)) ELSE 0

\* text::digits(16).exactly(8) at p: the position after the group, or 0.
hex_group(s, p) ==
    IF p # 0 /\ digits(s, p, Digits16, HexWidth) = p + HexWidth THEN p + HexWidth ELSE 0

\* just('_') at p: the position after it, or 0.
underscore(s, p) == IF p # 0 /\ At(s, p) = "_" THEN p + 1 ELSE 0

parse_hexint64(s, p) ==
    LET q == SkipWs(s, p)
        d == IF At(s, q) = "0" /\ At(s, q + 1) = "x" THEN q + 2 ELSE q
        e == hex_group(s, underscore(s, hex_group(s, underscore(s,
                 hex_group(s, underscore(s, hex_group(s, d)))))))
    IN  then_separator(s, q, e - 1, e)

parse_float(s, p) ==
    LET q == SkipWs(s, p)
        d == sign(s, q)
        i == digits(s, d, Digits10, Len(s))
        f == digits(s, i + 1, Digits10, Len(s))
    IN  IF i = d \/ At(s, i) # "." \/ f = i + 1 THEN NoMatch
        ELSE then_separator(s, q, f - 1, f)

RECURSIVE symbol_end(_, _)
\* none_of(" \"()\n\t").repeated()
symbol_end(s, p) ==
    IF At(s, p) # "" /\ At(s, p) \notin SymbolStop THEN symbol_end(s, p + 1) ELSE p

\* A symbol recognizer without .at_least(1).
parse_symbol_empty(s, p) ==
    LET q == SkipWs(s, p)
        e == symbol_end(s, q)
    IN  then_separator(s, q, e - 1, e)


parse_symbol(s, p) ==
    LET q == SkipWs(s, p)
        e == symbol_end(s, q)
    IN  IF e = q THEN NoMatch ELSE then_separator(s, q, e - 1, e)

-----------------------------------------------------------------------------
(* The tree *)

Invalid == [kind |-> "Invalid", text |-> <<>>, kids |-> <<>>]

Leaf(k, span) == [kind |-> k, text |-> span, kids |-> <<>>]

List(nodes) == [kind |-> "List", text |-> <<>>, kids |-> nodes]

NoItem == [ok |-> FALSE, node |-> Invalid, pos |-> 0, errs |-> 0, hang |-> FALSE]

\* .map(Variant) on a recognizer's result.
map(k, r) ==
    IF r.ok
    THEN [ok |-> TRUE, node |-> Leaf(k, r.span), pos |-> r.pos, errs |-> 0, hang |-> FALSE]
    ELSE NoItem

\* a.or(b): b is tried, from the same position, only when a failed.
or(a, b) == IF a.ok \/ a.hang THEN a ELSE b

\* A choice that tries the symbol recognizer first.
literal_symbol_first(s, p) ==
    or(map("Symbol", parse_symbol(s, p)),
    or(map("StringLiteral", parse_string(s, p)),
    or(map("IntLiteral", parse_int(s, p)),
    or(map("HexIntLiteral", parse_hexint64(s, p)),
       map("FloatLiteral", parse_float(s, p))))))

\* choice((string, int, hexint64, float, symbol)) with the variant each maps to.
literal(s, p) ==
    or(map("StringLiteral", parse_string(s, p)),
    or(map("IntLiteral", parse_int(s, p)),
    or(map("HexIntLiteral", parse_hexint64(s, p)),
    or(map("FloatLiteral", parse_float(s, p)),
       map("Symbol", parse_symbol(s, p))))))

RECURSIVE block(_, _)

\* After a nested group was tried at p and stopped at e: the group counts only
\* if its ')' is there, otherwise the repetition ends at p.
block_group(s, p, e) == IF At(s, e) = ")" THEN block(s, e + 1) ELSE p

\* The body of nested_delimiters('(', ')', []): balanced groups or any
\* character that is no parenthesis, repeated; the position where it stops.
block(s, p) ==
    IF At(s, p) = "(" THEN block_group(s, p, block(s, p + 1))
    ELSE IF At(s, p) = "" \/ At(s, p) = ")" THEN p
    ELSE block(s, p + 1)

\* A recovery that emits no error.
block_closed_silent(s, p, e) ==
    IF At(s, p) = "(" /\ At(s, e) = ")"
    THEN [ok |-> TRUE, node |-> Invalid, pos |-> e + 1, errs |-> 0, hang |-> FALSE]
    ELSE NoItem

\* The block must end at the ')' that matches the '(' at p.
block_closed(s, p, e) ==
    IF At(s, p) = "(" /\ At(s, e) = ")"
    THEN [ok |-> TRUE, node |-> Invalid, pos |-> e + 1, errs |-> 1, hang |-> FALSE]
    ELSE NoItem

\* via_parser(nested_delimiters('(', ')', [], |_| Invalid)): the region from
\* the '(' at p to its matching ')' becomes Invalid, and the error of the
\* failed item is emitted.
nested_delimiters(s, p) == block_closed(s, p, block(s, p + 1))

RECURSIVE repeated(_, _)

\* The end of a list: the items bf must be followed by ')'; padding after it
\* is skipped.
list_closed(s, bf) ==
    IF bf.hang THEN [NoItem EXCEPT !.hang = TRUE]
    ELSE IF At(s, bf.pos) # ")" THEN NoItem
    ELSE [ok |-> TRUE, node |-> List(bf.nodes), pos |-> SkipWs(s, bf.pos + 1),
          errs |-> bf.errs, hang |-> FALSE]

\* bf.delimited_by(just('('), just(')')) at q.
delimited(s, q) == IF At(s, q) # "(" THEN NoItem ELSE list_closed(s, repeated(s, q + 1))

\* bf.delimited_by(just('('), just(')')).padded().map(List)
list(s, p) == delimited(s, SkipWs(s, p))

\* .recover_with(strategy): the strategy runs, from the position the item
\* started at, only when the item failed.
recover_with(r, strategy) == IF r.ok \/ r.hang THEN r ELSE strategy

\* choice(...).or(list).recover_with(...): one element of the repetition.
item(s, p) == recover_with(or(literal(s, p), list(s, p)), nested_delimiters(s, p))

\* A repetition that collects its items back to front.
cons_reversed(r, rest) ==
    [pos |-> rest.pos, nodes |-> rest.nodes \o <<r.node>>,
     errs |-> r.errs + rest.errs, hang |-> rest.hang]

\* An item followed by the rest of the repetition.
cons(r, rest) ==
    [pos |-> rest.pos, nodes |-> <<r.node>> \o rest.nodes,
     errs |-> r.errs + rest.errs, hang |-> rest.hang]

\* One round of .repeated() at p, the item's result being r: a failed item is
\* rewound, which also drops the errors it emitted, and ends the repetition;
\* an item that succeeds without consuming input never lets it end.
collect(s, p, r) ==
    IF r.hang THEN [pos |-> p, nodes |-> <<>>, errs |-> 0, hang |-> TRUE]
    ELSE IF ~r.ok THEN [pos |-> p, nodes |-> <<>>, errs |-> 0, hang |-> FALSE]
    ELSE IF r.pos = p THEN [pos |-> p, nodes |-> <<>>, errs |-> 0, hang |-> TRUE]
    ELSE cons(r, repeated(s, r.pos))

\* .repeated().collect()
repeated(s, p) == collect(s, p, item(s, p))

NoTree == [has_output |-> FALSE, output |-> <<>>, errors |-> 0, hang |-> FALSE]

\* A parse that returns the items it got without asking for end of input.
then_end_partial(s, r) ==
    IF r.hang THEN [NoTree EXCEPT !.hang = TRUE]
    ELSE [has_output |-> TRUE, output |-> r.nodes, errors |-> r.errs, hang |-> FALSE]

\* ParseResult of the repetition r over s: it must have reached end of input;
\* otherwise the output is dropped and the final error joins the emitted ones.
then_end(s, r) ==
    IF r.hang THEN [NoTree EXCEPT !.hang = TRUE]
    ELSE IF r.pos = Len(s) + 1
    THEN [has_output |-> TRUE, output |-> r.nodes, errors |-> r.errs, hang |-> FALSE]
    ELSE [has_output |-> FALSE, output |-> <<>>, errors |-> r.errs + 1, hang |-> FALSE]

\* parser().parse(s)
parser(s) == then_end(s, repeated(s, 1))

RECURSIVE trim_start(_)
trim_start(s) == IF s # <<>> /\ Head(s) \in Whitespace THEN trim_start(Tail(s)) ELSE s

RECURSIVE trim_end(_)
trim_end(s) ==
    IF s # <<>> /\ s[Len(s)] \in Whitespace THEN trim_end(SubSeq(s, 1, Len(s) - 1)) ELSE s

\* str::trim
trim(s) == trim_end(trim_start(s))

\* ParseResult::into_result as the driver uses it.
into_result(r) == IF r.errors = 0 /\ r.has_output THEN "Ok" ELSE "Err"

-----------------------------------------------------------------------------
(* State machine *)
(*                                                                         *)
(* src is the input text, pc the operation that has been applied to it,    *)
(* lit the result of a literal recognizer applied at the start of src,     *)
(* node the result of the literal dispatcher, tree the ParseResult of      *)
(* parser().parse, report what the driver prints.                          *)

MaxLen == 6

MaxLit == 5

MaxStr == 5

MaxTerm == 5

HexSlack == 1

Alphabet == {"(", ")", "\"", " ", "a", "1"}

LitAlphabet == {"\"", "-", "1", ".", "a", " ", "\n", ")"}

StrAlphabet == {"\"", "\\", "n", "a", " ", ")"}

TermAlphabet == {"(", ")", "\"", "\\", " ", "1", "a"}

HexSample == <<"d", "e", "a", "d", "b", "e", "E", "F", "1", "0", "2", "c">>

\* The i-th group of a hex blob, w digits wide.
Group(i, w) == [k \in 1..w |-> HexSample[((k + i) % Len(HexSample)) + 1]]

Underscores(k) == [i \in 1..k |-> "_"]

HexWidths == (HexWidth - HexSlack)..(HexWidth + HexSlack)

HexBlob(w1, k1, w2, k2, w3) ==
    Group(1, w1) \o Underscores(k1) \o Group(2, w2) \o Underscores(k2) \o Group(3, w3)

\* Texts "prefix groups separator": three, four or five groups of hex digits,
\* each group up to HexSlack narrower or wider than HexWidth, with none, one
\* or two '_' between adjacent groups.
HexTexts ==
    { pre \o HexBlob(w[1], k[1], w[2], k[2], w[3]) \o more \o sep :
        pre \in {<<>>, <<"0", "x">>},
        w \in [1..3 -> HexWidths],
        k \in [1..2 -> 0..2],
        more \in {<<>>}
             \cup { Underscores(k3) \o Group(4, w4) \o fifth :
                      k3 \in 0..2, w4 \in HexWidths,
                      fifth \in {<<>>, <<"_">> \o Group(5, HexWidth)} },
        sep \in {<<" ">>, <<")">>} }

WellFormedHex == HexBlob(HexWidth, 1, HexWidth, 1, HexWidth) \o <<"_">> \o Group(4, HexWidth)

\* Hex-looking texts that differ from a well-formed blob in one character.
HexOddities ==
    { <<"0", "X">> \o WellFormedHex \o <<" ">>,
      <<"x">> \o WellFormedHex \o <<" ">>,
      <<"0">> \o WellFormedHex \o <<" ">>,
      <<"-">> \o WellFormedHex \o <<" ">>,
      [WellFormedHex EXCEPT ![2] = "g"] \o <<" ">>,
      [WellFormedHex EXCEPT ![HexWidth + 1] = "-"] \o <<" ">>,
      [WellFormedHex EXCEPT ![HexWidth + 1] = " "] \o <<" ">> }

\* A well-formed blob whose digits are all decimal.
DecimalHex == [i \in 1..Len(WellFormedHex) |-> IF WellFormedHex[i] = "_" THEN "_" ELSE "1"]

\* Well-formed blobs, bare, prefixed or signed, with the text a token can be
\* followed by.
HexSamples ==
    { lead \o pre \o blob \o rest :
        lead \in {<<>>, <<" ">>},
        pre \in {<<>>, <<"0", "x">>, <<"-">>},
        blob \in {WellFormedHex, DecimalHex},
        rest \in {<<>>, <<" ">>, <<"\n">>, <<")">>, <<"a">>, <<"(">>, <<"_">>, <<" ", ")">>} }

Start(s) ==
    /\ src = s
    /\ pc = "input"
    /\ lit = NoMatch
    /\ node = NoItem
    /\ tree = NoTree
    /\ report = "none"

Init == Start(<<>>)

InitLit == \E s \in {<<>>} \cup HexSamples : Start(s)

InitHex == \E s \in HexTexts \cup HexOddities : Start(s)

\* One more character of input.
Typed(c, most) ==
    /\ pc = "input"
    /\ Len(src) < most
    /\ src' = Append(src, c)
    /\ UNCHANGED <<pc, lit, node, tree, report>>

Type == \E c \in Alphabet : Typed(c, MaxLen)

TypeLit == \E c \in LitAlphabet : Typed(c, MaxLit)

TypeStr == \E c \in StrAlphabet : Typed(c, MaxStr)

TypeTerm == \E c \in TermAlphabet : Typed(c, MaxTerm)

\* A recognizer applied at the start of the text.
Recognized(name, r) ==
    /\ pc = "input"
    /\ lit' = r
    /\ pc' = name
    /\ UNCHANGED <<src, node, tree, report>>

RunString == Recognized("string", parse_string(src, 1))

RunInt == Recognized("int", parse_int(src, 1))

RunHexint64 == Recognized("hexint64", parse_hexint64(src, 1))

RunFloat == Recognized("float", parse_float(src, 1))

RunSymbol == Recognized("symbol", parse_symbol(src, 1))

\* The ordered choice of the five recognizers applied at the start of the text.
Dispatch ==
    /\ pc = "input"
    /\ node' = literal(src, 1)
    /\ pc' = "dispatch"
    /\ UNCHANGED <<src, lit, tree, report>>

\* parser().parse(src)
Parse ==
    /\ pc = "input"
    /\ tree' = parser(src)
    /\ pc' = "parsed"
    /\ UNCHANGED <<src, lit, node, report>>

\* The example driver: parser().parse(src.trim()).into_result()
main ==
    /\ pc = "input"
    /\ tree' = parser(trim(src))
    /\ report' = into_result(tree')
    /\ pc' = "reported"
    /\ UNCHANGED <<src, lit, node>>

Next == Type \/ Parse \/ main

NextLit == TypeLit \/ RunString \/ RunInt \/ RunHexint64 \/ RunFloat \/ RunSymbol \/ Dispatch

NextStr == TypeStr \/ RunString

NextHex == RunHexint64 \/ Dispatch

NextTerm == TypeTerm \/ Parse

Spec == Init /\ [][Next]_vars

SpecLit == InitLit /\ [][NextLit]_vars

SpecStr == Init /\ [][NextStr]_vars

SpecHex == InitHex /\ [][NextHex]_vars

SpecTerm == Init /\ [][NextTerm]_vars

-----------------------------------------------------------------------------
(* Vocabulary of the properties: texts described without the parser *)

\* All sequences over S of length 0..n.
SeqsUpTo(S, n) == UNION { [1..k -> S] : k \in 0..n }

RECURSIVE Invalids(_)
\* The number of Invalid nodes in a sequence of trees.
Invalids(nodes) ==
    IF nodes = <<>> THEN 0
    ELSE (IF Head(nodes).kind = "Invalid" THEN 1 ELSE Invalids(Head(nodes).kids))
         + Invalids(Tail(nodes))

QuoteFree(s) == \A i \in 1..Len(s) : s[i] # "\""

RECURSIVE Depth(_, _)
\* '(' minus ')' among the first k characters.
Depth(s, k) ==
    IF k = 0 THEN 0
    ELSE Depth(s, k - 1) + (IF s[k] = "(" THEN 1 ELSE IF s[k] = ")" THEN -1 ELSE 0)

\* Literal tokens over {a, 1} and quoted strings without escapes, each with
\* the node it stands for.
LitForms(n) ==
    { [text |-> w,
       node |-> Leaf(IF \A i \in 1..Len(w) : w[i] = "1" THEN "IntLiteral" ELSE "Symbol", w)] :
        w \in SeqsUpTo({"a", "1"}, n) \ {<<>>} }
    \cup
    { [text |-> <<"\"">> \o b \o <<"\"">>, node |-> Leaf("StringLiteral", b)] :
        b \in SeqsUpTo(Alphabet \ {"\""}, n - 2) }

\* Non-empty runs of whitespace of length up to n.
Gaps(n) == SeqsUpTo(Alphabet \cap Whitespace, n) \ {<<>>}

RECURSIVE KidSeqs(_)
RECURSIVE ListForms(_)

\* '(' items ')' of at most n characters, with the List it stands for.
ListForms(n) ==
    IF n < 2 THEN {}
    ELSE { [text |-> <<"(">> \o k.text \o <<")">>, node |-> List(k.nodes)] :
             k \in KidSeqs(n - 2) }

\* Item sequences of at most n characters: nothing; a last literal; a literal,
\* whitespace, more items; a nested list, optional whitespace, more items.
KidSeqs(n) ==
    IF n < 0 THEN {}
    ELSE {[text |-> <<>>, nodes |-> <<>>]}
         \cup { [text |-> l.text, nodes |-> <<l.node>>] : l \in LitForms(n) }
         \cup UNION { { [text |-> l.text \o g \o r.text, nodes |-> <<l.node>> \o r.nodes] :
                          r \in KidSeqs(n - Len(l.text) - Len(g)) } :
                      l \in LitForms(n), g \in Gaps(n) }
         \cup UNION { { [text |-> b.text \o g \o r.text, nodes |-> <<b.node>> \o r.nodes] :
                          r \in KidSeqs(n - Len(b.text) - Len(g)) } :
                      b \in ListForms(n), g \in {<<>>} \cup Gaps(n) }

ValidLists == ListForms(MaxLen)

\* The text s with the character c put in front of position i.
InsertAt(s, i, c) == SubSeq(s, 1, i - 1) \o <<c>> \o SubSeq(s, i, Len(s))

\* Positions of s where padding could go: next to a parenthesis, next to
\* whitespace that is already there, or in front of the whole text.
PaddingPoint(s, i) ==
    \/ i = 1 /\ s # <<>>
    \/ At(s, i - 1) \in {"(", ")"} \cup Whitespace
    \/ At(s, i) \in {"(", ")"} \cup Whitespace

\* A ')' that closes nothing, in a text without quotes.
StrayClose(s) == QuoteFree(s) /\ \E k \in 1..Len(s) : Depth(s, k) < 0

\* A '(' that nothing closes, in a text without quotes.
Unclosed(s) == QuoteFree(s) /\ Depth(s, Len(s)) > 0

\* A quote outside any parentheses that no later quote closes.
UnterminatedString(s) ==
    \E k \in 1..Len(s) :
        /\ s[k] = "\""
        /\ \A j \in 1..Len(s) : j # k => s[j] # "\""
        /\ Depth(s, k) = 0
        /\ \A j \in 1..k : Depth(s, j) >= 0

\* The text ends in a character that no separator follows.
CutShort(s) == s # <<>> /\ s[Len(s)] \notin Separators

TopLevelFailure(s) == StrayClose(s) \/ Unclosed(s) \/ UnterminatedString(s) \/ CutShort(s)

\* The malformed region of the recovery example: an unterminated quote inside
\* balanced parentheses.
BadRegion == <<"(", "\"", ")">>

\* A list with BadRegion as one child: after nothing or a symbol, followed by
\* optional whitespace and then nothing or a symbol; with the tree in which
\* Invalid stands for the region.
BadRegionForms ==
    { [text |-> <<"(">> \o pre.text \o BadRegion \o g \o post.text \o <<")">>,
       node |-> List(pre.nodes \o <<Invalid>> \o post.nodes)] :
        pre \in {[text |-> <<>>, nodes |-> <<>>],
                 [text |-> <<"a", " ">>, nodes |-> <<Leaf("Symbol", <<"a">>)>>]},
        g \in {<<>>, <<" ">>},
        post \in {[text |-> <<>>, nodes |-> <<>>],
                  [text |-> <<"a">>, nodes |-> <<Leaf("Symbol", <<"a">>)>>]} }

Parsed == pc = "parsed"

Done == pc \in {"parsed", "reported"}

-----------------------------------------------------------------------------
(* Properties of the tree parser *)

\* C1: a list with one malformed nested region, with or without whitespace
\* around the region, parses to a List in which one Invalid node stands for
\* the region and the other children are parsed as usual.
C1_RecoveryIsLocal ==
    Parsed =>
        \A f \in BadRegionForms :
            f.text = src => tree.has_output /\ tree.output = <<f.node>>

\* C2: a text '(' valid items ')' parses to exactly one List whose children
\* are the items in source order, without errors and without Invalid nodes.
C2_ValidList ==
    Parsed =>
        \A f \in ValidLists :
            f.text = src =>
                tree = [has_output |-> TRUE, output |-> <<f.node>>, errors |-> 0,
                        hang |-> FALSE]

C2_Witness ==
    /\ Parsed
    /\ src = <<"(", "(", "a", ")", "1", ")">>
    /\ tree.output = <<List(<<List(<<Leaf("Symbol", <<"a">>)>>), Leaf("IntLiteral", <<"1">>)>>)>>

\* C3 (as stated): whenever recovery replaced regions by Invalid nodes and a
\* tree is returned, the error list is empty and the driver reports success.
C3_SilentRecovery ==
    (Done /\ tree.has_output /\ Invalids(tree.output) > 0) =>
        tree.errors = 0 /\ (pc = "reported" => report = "Ok")

\* C3 (amended): recovery is not silent.  A returned tree comes with exactly
\* one error per Invalid node in it, and the driver, which converts the result
\* to success-or-errors, reports success only for a tree without Invalid nodes.
C3_RecoveryEmitsErrors ==
    /\ (Done /\ tree.has_output) => tree.errors = Invalids(tree.output)
    /\ pc = "reported" =>
           (report = "Ok" <=> (tree.has_output /\ Invalids(tree.output) = 0))

C3_Witness ==
    /\ pc = "reported"
    /\ src = <<"(", "(", "\"", ")", "a", ")">>
    /\ tree.output = <<List(<<Invalid, Leaf("Symbol", <<"a">>)>>)>>
    /\ tree.errors = 1
    /\ report = "Err"

\* C4: a parse ends with a node sequence, or else with no output and at
\* least one error; a stray ')', an unclosed '(', an unterminated string at
\* the top level or a literal cut short by end of input gives no output and at
\* least one error, whatever valid forms precede it.
C4_TreeOrErrors ==
    Parsed =>
        /\ ~tree.hang
        /\ tree.has_output => repeated(src, 1).pos = Len(src) + 1
        /\ ~tree.has_output => tree.output = <<>> /\ tree.errors >= 1
        /\ TopLevelFailure(src) => ~tree.has_output /\ tree.errors >= 1

C4_Witness ==
    /\ Parsed
    /\ src = <<"(", "a", ")", " ", "a", ")">>
    /\ StrayClose(src)
    /\ ~tree.has_output
    /\ tree.errors = 1

\* C9: for a text that parses, one more whitespace character next to a
\* parenthesis or between two items does not change the node sequence.
C9_WhitespaceInsignificant ==
    (Parsed /\ QuoteFree(src) /\ tree.has_output /\ tree.errors = 0) =>
        \A i \in 1..(Len(src) + 1) :
            PaddingPoint(src, i) =>
                \A c \in Alphabet \cap Whitespace :
                    /\ parser(InsertAt(src, i, c)).has_output
                    /\ parser(InsertAt(src, i, c)).output = tree.output

\* An item that ends, and if it succeeds at p ends after p.
Progress(p, r) == ~r.hang /\ (r.ok => r.pos > p)

\* C10: parsing terminates: no successful item leaves the position where it
\* started, the repetitions never stall, and the call ends with a tree or with
\* errors.
C10_Terminates ==
    Parsed =>
        /\ ~tree.hang
        /\ tree.has_output \/ tree.errors >= 1
        /\ \A p \in 1..(Len(src) + 1) : Progress(p, item(src, p))

C10_Witness ==
    /\ Parsed
    /\ src = <<"(", "\"", ")", "a", " ">>
    /\ tree.output = <<Invalid, Leaf("Symbol", <<"a">>)>>
    /\ ~tree.hang

-----------------------------------------------------------------------------
(* Vocabulary of the properties: tokens described without the recognizers *)

Min(S) == CHOOSE x \in S : \A y \in S : x <= y

\* The first position from e on that holds no whitespace.
AfterPadding(s, e) == Min({ i \in e..(Len(s) + 1) : At(s, i) \notin Whitespace })

\* Where the first token of s starts.
TokenStart(s) == AfterPadding(s, 1)

\* Where an unquoted token that starts at q ends: right before the first
\* separator, or at end of input.
BareEnd(s, q) == Min({ i \in q..(Len(s) + 1) : At(s, i) \in Separators \cup {""} }) - 1

IsDigits(t) == t # <<>> /\ \A i \in 1..Len(t) : t[i] \in Digits10

IsIntToken(t) == IsDigits(t) \/ (t # <<>> /\ Head(t) = "-" /\ IsDigits(Tail(t)))

IsFloatToken(t) ==
    \E k \in 1..Len(t) :
        /\ t[k] = "."
        /\ IsIntToken(SubSeq(t, 1, k - 1))
        /\ IsDigits(SubSeq(t, k + 1, Len(t)))

\* Four groups of HexWidth hex digits with '_' between them.
IsHexBody(t) ==
    /\ Len(t) = 4 * HexWidth + 3
    /\ \A i \in 1..Len(t) :
           IF i % (HexWidth + 1) = 0 THEN t[i] = "_" ELSE t[i] \in Digits16

IsHexToken(t) ==
    \/ IsHexBody(t)
    \/ Len(t) > 2 /\ t[1] = "0" /\ t[2] = "x" /\ IsHexBody(SubSeq(t, 3, Len(t)))

IsSymbolToken(t) == t # <<>> /\ \A i \in 1..Len(t) : t[i] \notin SymbolStop

RECURSIVE BackslashesBefore(_, _)
\* The number of consecutive backslashes right before position i.
BackslashesBefore(s, i) == IF At(s, i - 1) = "\\" THEN 1 + BackslashesBefore(s, i - 1) ELSE 0

\* The character at i, inside a string that opens before it, is taken
\* literally because an escaping backslash precedes it.
Escaped(s, i) == BackslashesBefore(s, i) % 2 = 1

\* The candidates for the closing quote of the string that opens at q.
ClosingQuotes(s, q) == { i \in (q + 1)..Len(s) : s[i] = "\"" /\ ~Escaped(s, i) }

\* The lexeme of the given kind at the start of s: whether one is there, and
\* its first and last position.
Lexeme(kind, s) ==
    LET q == TokenStart(s)
        e == BareEnd(s, q)
        t == SubSeq(s, q, e)
    IN  IF kind = "string" THEN
            IF At(s, q) = "\"" /\ ClosingQuotes(s, q) # {} THEN
                [ok |-> \A i \in (q + 1)..(Min(ClosingQuotes(s, q)) - 1) :
                            (s[i] = "\\" /\ ~Escaped(s, i)) => s[i + 1] \in EscapeCodes,
                 from |-> q, to |-> Min(ClosingQuotes(s, q))]
            ELSE [ok |-> FALSE, from |-> q, to |-> q]
        ELSE [ok |-> CASE kind = "int" -> IsIntToken(t)
                       [] kind = "hexint64" -> IsHexToken(t)
                       [] kind = "float" -> IsFloatToken(t)
                       [] kind = "symbol" -> IsSymbolToken(t),
              from |-> q, to |-> e]

Recognizers == {"string", "int", "hexint64", "float", "symbol"}

\* The recognizer accepts exactly a lexeme of its kind that a separator
\* follows, and ends after the padding behind it.
SeparatorRule(x) ==
    /\ lit.ok <=> (x.ok /\ At(src, x.to + 1) \in Separators)
    /\ lit.ok => lit.pos = AfterPadding(src, x.to + 1)

-----------------------------------------------------------------------------
(* Properties of the literal recognizers *)

\* C5 (as stated): each of the five recognizers accepts a token only when a
\* space, tab, newline or ')' follows it, returns exactly the token as the
\* span, consumes trailing whitespace and leaves a trailing ')' unconsumed.
C5_SpanIsToken ==
    pc \in Recognizers =>
        /\ SeparatorRule(Lexeme(pc, src))
        /\ lit.ok => lit.span = SubSeq(src, Lexeme(pc, src).from, Lexeme(pc, src).to)

\* The span a recognizer returns for the lexeme x: the lexeme, for a string
\* without its two quotes.
Payload(kind, x) ==
    IF kind = "string" THEN SubSeq(src, x.from + 1, x.to - 1) ELSE SubSeq(src, x.from, x.to)

\* C5 (amended): each of the five recognizers accepts a token only when a
\* space, tab, newline or ')' follows it, consumes trailing whitespace and
\* leaves a trailing ')' unconsumed; the span is exactly the token for
\* parse_int, parse_hexint64, parse_float and parse_symbol, and the token
\* without its two quotes for parse_string.
C5_SeparatorRule ==
    pc \in Recognizers =>
        /\ SeparatorRule(Lexeme(pc, src))
        /\ lit.ok => lit.span = Payload(pc, Lexeme(pc, src))

C5_Witness ==
    /\ pc = "string"
    /\ src = <<"\"", "a", "\"", " ", ")">>
    /\ lit = [ok |-> TRUE, span |-> <<"a">>, pos |-> 5]

\* The node the dispatcher must give for the first token of the text.
Expected(s) ==
    LET str == Lexeme("string", s)
        q   == TokenStart(s)
        t   == SubSeq(s, q, BareEnd(s, q))
    IN  IF str.ok THEN
            IF At(s, str.to + 1) \in Separators
            THEN Leaf("StringLiteral", SubSeq(s, str.from + 1, str.to - 1)) ELSE Invalid
        ELSE IF At(s, BareEnd(s, q) + 1) \notin Separators THEN Invalid
        ELSE IF IsIntToken(t) THEN Leaf("IntLiteral", t)
        ELSE IF IsHexToken(t) THEN Leaf("HexIntLiteral", t)
        ELSE IF IsFloatToken(t) THEN Leaf("FloatLiteral", t)
        ELSE IF IsSymbolToken(t) THEN Leaf("Symbol", t)
        ELSE Invalid

\* C6: the dispatcher gives the variant of the first recognizer, in the order
\* string, integer, hex blob, float, symbol, that accepts; the integer, hex
\* blob and float recognizers accept disjoint tokens; -?digits is an
\* IntLiteral, -?digits.digits a FloatLiteral, a well-formed hex blob a
\* HexIntLiteral, and any other run of symbol characters a Symbol.
C6_Dispatch ==
    pc = "dispatch" =>
        /\ node.ok <=> Expected(src) # Invalid
        /\ node.ok => node.node = Expected(src)
        /\ Cardinality({ k \in {"int", "hexint64", "float"} : Lexeme(k, src).ok }) <= 1
        /\ ~(parse_int(src, 1).ok /\ parse_float(src, 1).ok)
        /\ ~(parse_int(src, 1).ok /\ parse_hexint64(src, 1).ok)
        /\ ~(parse_float(src, 1).ok /\ parse_hexint64(src, 1).ok)

C6_Witness ==
    /\ pc = "dispatch"
    /\ src = <<"-", "1", ".", "1", " ">>
    /\ node.node = Leaf("FloatLiteral", <<"-", "1", ".", "1">>)

\* C7: parse_hexint64 accepts exactly an optional '0x' followed by four
\* groups of exactly 8 hex digits with a single '_' between adjacent groups,
\* and returns the whole token, prefix included, as the span.
C7_HexBlob ==
    pc = "hexint64" =>
        /\ SeparatorRule(Lexeme("hexint64", src))
        /\ lit.ok => /\ lit.span = SubSeq(src, 1, Len(src) - 1)
                     /\ IsHexToken(lit.span)
        /\ (IsHexToken(SubSeq(src, 1, Len(src) - 1)) /\ src[Len(src)] \in Separators) => lit.ok

C7_Witness ==
    /\ pc = "hexint64"
    /\ lit.ok
    /\ lit.span = <<"0", "x">> \o WellFormedHex
    /\ lit.pos = Len(src) + 1

\* C8: the payload of an accepted string is the source between the opening
\* quote and the first quote that no escaping backslash precedes, quotes
\* excluded and escapes left as written; a backslash followed by anything but
\* backslash, quote, n or t, or a missing closing quote, makes it fail.
C8_RawPayload ==
    pc = "string" =>
        /\ SeparatorRule(Lexeme("string", src))
        /\ lit.ok =>
              /\ lit.span = SubSeq(src, Lexeme("string", src).from + 1,
                                   Lexeme("string", src).to - 1)
              /\ Len(lit.span) = Lexeme("string", src).to - Lexeme("string", src).from - 1
        /\ ClosingQuotes(src, TokenStart(src)) = {} => ~lit.ok
        /\ (\E i \in 1..Len(src) :
               /\ i < Lexeme("string", src).to
               /\ src[i] = "\\" /\ ~Escaped(src, i)
               /\ At(src, i + 1) \notin EscapeCodes) => ~lit.ok

C8_Witness ==
    /\ pc = "string"
    /\ src = <<"\"", "\\", "n", "\"", " ">>
    /\ lit = [ok |-> TRUE, span |-> <<"\\", "n">>, pos |-> 6]

====
